---- MODULE Spec2Model ----
(***************************************************************************)
(* Model of vtok_agent/src/enclave.rs: the P11neEnclave handle, its        *)
(* bootstrap (new), boot polling (wait_boot), the RPC client (rpc), the    *)
(* attestation retry loop (retry_rpc), the token operations and Drop.      *)
(*                                                                         *)
(* Time is in milliseconds.  `now` is the monotonic clock read by          *)
(* Instant::now(); it is set to 0 when wait_boot starts, since the code    *)
(* only ever uses differences of instants taken within one wait_boot call. *)
(* Values returned by the launcher are wider than 32 bits; they are kept   *)
(* as four 16-bit limbs, least significant first, so that the `as u32`     *)
(* and `as i32` casts of new() can be computed exactly.                    *)
(***************************************************************************)
EXTENDS Integers, Sequences, FiniteSets, TLC

(* ------------------------------ bounds -------------------------------- *)

\* attestation_retry_count is drawn from 0..MaxRetryCount
MaxRetryCount == 3
\* boot_timeout is drawn from {0, 100, ..., 100 * MaxBootPolls} ms
MaxBootPolls == 2
\* one rpc() call blocks for 0, 150, ..., 150 * MaxRpcDelay ms
MaxRpcDelay == 1
\* the attempt counter of retry_rpc is not incremented beyond MaxCount
MaxCount == 4

(* ------------------------- program constants -------------------------- *)

\* wait_boot: let poll_dur = Duration::from_millis(100)
PollDurMs == 100
\* retry_rpc: Duration::from_millis((1 << (count - 1)) * 100)
BackoffBaseMs == 100

Handles == {1, 2}

RetryOps == {"add_token", "refresh_token", "update_token"}
SingleOps == {"remove_token", "describe_token"}
TokenOps == RetryOps \cup SingleOps

(* --------------------- values of the collaborators -------------------- *)

Limb == 2 ^ 16

\* what ne::run_enclave can return: (enclave_cid, process_id), each as limbs
LauncherResults ==
  { [enclave_cid |-> <<16, 0, 0, 0>>, process_id |-> <<4242, 0, 0, 0>>],
    [enclave_cid |-> <<17, 0, 1, 0>>, process_id |-> <<4243, 32768, 0, 0>>] }

\* config::Enclave: the optional overrides new() reads; an Option is <<>> or <<v>>
None == <<>>
Some(v) == <<v>>
BootTimeoutOpts == {None} \cup {Some(100 * k) : k \in 0..MaxBootPolls}
RetryCountOpts == {None} \cup {Some(n) : n \in 0..MaxRetryCount}
\* the configurations drawn: every value of one override, the other left unset
EnclaveConfigs ==
  {[boot_timeout_ms |-> bt, attestation_retry_count |-> None] : bt \in BootTimeoutOpts}
  \cup
  {[boot_timeout_ms |-> None, attestation_retry_count |-> rc] : rc \in RetryCountOpts}

\* defs::DEFAULT_ENCLAVE_BOOT_TIMEOUT_MS and defs::DEFAULT_ATTESTATION_RETRY_COUNT
\* are defined outside enclave.rs; the model takes the largest values it draws.
DefaultBootTimeoutMs == 100 * MaxBootPolls
DefaultAttestationRetryCount == MaxRetryCount

UnwrapOr(opt, default) == IF opt = None THEN default ELSE opt[1]

\* `x as u32`: the low 32 bits
AsU32(x) == <<x[1], x[2]>>
\* `x as i32`: the low 32 bits, read as two's complement
AsI32(x) == <<x[1], x[2]>>
IsNegativeI32(p) == p[2] >= Limb \div 2
\* widening a u32 back to the launcher's width, to compare the two
ZeroExtend(c) == <<c[1], c[2], 0, 0>>

(* ------------------------------ state --------------------------------- *)

VARIABLES
  handle,     \* handle[h]: the P11neEnclave struct of slot h, and whether it is live
  file,       \* the bridge file /etc/pkcs11/modules/<name>.module
  running,    \* process ids (launcher width) of the enclave processes running
  boot,       \* what the call of new() that has just returned did
  teardown,   \* what the drop() that has just returned did
  booted,     \* the handles on which a wait_boot call has returned true
  op,         \* the public operation in progress or last finished
  cur,        \* the handle that operation was called on
  pc,         \* position of the single thread inside that operation
  count,      \* retry_rpc: the local `count`
  limit,      \* wait_boot: the local `limit`
  now,        \* the monotonic clock, ms since wait_boot was called
  rpcRes,     \* result of the last rpc() call
  ret,        \* return value of the operation, once pc = "done"
  conn,       \* open VsockStream connections (set of addresses)
  inflight,   \* requests sent whose response has not been read
  attempts,   \* rpc() calls issued by the operation so far
  sleeps,     \* durations passed to interruptible_sleep by the operation so far
  polls,      \* wait_boot: clock value at which each poll started
  nresp,      \* responses (accepted or rejected) received by the operation
  nacc,       \* accepted responses received by the operation
  interrupted \* whether a sleep of the operation ended with UserExit

envVars == <<handle, file, running, boot, teardown>>
callVars == <<op, cur, pc, count, limit, now, rpcRes, ret, conn, inflight,
              attempts, sleeps, polls, nresp, nacc, interrupted>>
vars == <<handle, file, running, boot, teardown, booted, op, cur, pc, count,
          limit, now, rpcRes, ret, conn, inflight, attempts, sleeps, polls,
          nresp, nacc, interrupted>>

NoHandle(st) == [state |-> st, cid |-> <<0, 0>>, pid |-> <<0, 0>>,
                 boot_timeout |-> 0, attestation_retry_count |-> 0]
NoFile == [present |-> FALSE, cid |-> <<>>, writer |-> 0]
NoRes == [kind |-> "none", ok |-> FALSE, id |-> 0]
NoBoot == [h |-> 0, result |-> "none", launched |-> FALSE, opened |-> FALSE,
           wrote |-> FALSE, restarted |-> FALSE, killed |-> FALSE]
NoTeardown == [h |-> 0, killAttempted |-> FALSE, killOk |-> FALSE,
               removeAttempted |-> FALSE, removeOk |-> FALSE,
               warned |-> FALSE, completed |-> FALSE]

\* Result<ApiResponse, Error> of rpc(): Err(RpcConnectError), Err(RpcTransportError),
\* or Ok(response) where the response is itself Ok (accepted) or Err (rejected);
\* id is the number of the attempt that produced it.
ErrRes(kind, id) == [kind |-> kind, ok |-> FALSE, id |-> id]
OkRes(accepted, id) == [kind |-> "Ok", ok |-> accepted, id |-> id]
BoolRet(b) == [kind |-> "bool", ok |-> b, id |-> 0]

Idle == pc \in {"idle", "done"}
LiveOrDropped(h) == handle[h].state # "none"

\* a P11neEnclave value exists: new() has returned it and it has not been dropped
Live(h) == handle[h].state = "live"

\* The locals and the return value of a finished call are gone once the
\* caller goes on to new() or drop().
ForgetCall ==
  /\ op' = "none"
  /\ cur' = 0
  /\ pc' = "idle"
  /\ count' = 0
  /\ limit' = 0
  /\ now' = 0
  /\ rpcRes' = NoRes
  /\ ret' = NoRes
  /\ attempts' = 0
  /\ sleeps' = <<>>
  /\ polls' = <<>>
  /\ nresp' = 0
  /\ nacc' = 0
  /\ interrupted' = FALSE
  /\ UNCHANGED <<conn, inflight>>

Init ==
  /\ handle = [h \in Handles |-> NoHandle("none")]
  /\ file = NoFile
  /\ running = {}
  /\ boot = NoBoot
  /\ teardown = NoTeardown
  /\ booted = {}
  /\ op = "none"
  /\ cur = 0
  /\ pc = "idle"
  /\ count = 0
  /\ limit = 0
  /\ now = 0
  /\ rpcRes = NoRes
  /\ ret = NoRes
  /\ conn = {}
  /\ inflight = 0
  /\ attempts = 0
  /\ sleeps = <<>>
  /\ polls = <<>>
  /\ nresp = 0
  /\ nacc = 0
  /\ interrupted = FALSE

(* ------------------------------- new() -------------------------------- *)

LaunchOutcomes == {"ok", "err"}
\* OpenOptions::open fails / open (create + truncate) succeeds and write fails / both succeed
WriteOutcomes == {"open_err", "write_err", "ok"}
\* Command::status fails to execute / exits non-zero / exits zero
RestartOutcomes == {"exec_err", "nonzero", "ok"}

\* the launcher starts a new process: its id is not that of a running one
Launchable(procs) == {eri \in LauncherResults : eri.process_id \notin procs}

FileAfterWriteKeepsExisting(old, wr, eri, h) ==
  CASE wr = "open_err" \/ old.present -> old
    [] wr = "write_err" -> [present |-> TRUE, cid |-> <<>>, writer |-> h]
    [] OTHER            -> [present |-> TRUE, cid |-> eri.enclave_cid, writer |-> h]

\* the bridge file after the open(...).and_then(write) chain of new()
FileAfterWrite(old, wr, eri, h) ==
  CASE wr = "open_err"  -> old
    [] wr = "write_err" -> [present |-> TRUE, cid |-> <<>>, writer |-> h]
    [] OTHER            -> [present |-> TRUE, cid |-> eri.enclave_cid, writer |-> h]

\* the error new() returns, "Ok" when it returns a handle
NewResult(launch, wr, rs) ==
  CASE launch = "err"   -> "NitroCliError"
    [] wr # "ok"        -> "P11KitSetupError"
    [] rs = "exec_err"  -> "SystemdExecError"
    [] rs = "nonzero"   -> "VsockProxyError"
    [] OTHER            -> "Ok"

\* the struct built at the end of new()
NewHandle(eri, cfg) ==
  [state |-> "live",
   cid |-> AsU32(eri.enclave_cid),
   pid |-> AsI32(eri.process_id),
   boot_timeout |-> UnwrapOr(cfg.boot_timeout_ms, DefaultBootTimeoutMs),
   attestation_retry_count |->
     UnwrapOr(cfg.attestation_retry_count, DefaultAttestationRetryCount)]

ReachesWriteAlways(launch) == TRUE

\* ne::run_enclave(..).map_err(Error::NitroCliError)?: the steps after it run
\* only when the launcher returned Ok
ReachesWrite(launch) == launch = "ok"

RunningAfterNewCleansUp(procs, launched, eri, res) ==
  IF launched /\ res = "Ok" THEN procs \cup {eri.process_id} ELSE procs

\* the enclave processes running when new() returns: the launched one is added,
\* and no return path of new() signals it
RunningAfterNew(procs, launched, eri, res) ==
  IF launched THEN procs \cup {eri.process_id} ELSE procs

New(h) ==
  /\ Idle
  /\ handle[h].state = "none"
  /\ \A g \in Handles : g < h => handle[g].state # "none"
  /\ \E launch \in LaunchOutcomes, eri \in Launchable(running),
        wr \in WriteOutcomes, rs \in RestartOutcomes, cfg \in EnclaveConfigs :
       LET res == NewResult(launch, wr, rs)
           launched == launch = "ok"
           reachedWrite == ReachesWrite(launch)
           reachedRestart == launched /\ wr = "ok"
           newFile == IF reachedWrite THEN FileAfterWrite(file, wr, eri, h) ELSE file
       IN /\ running' = RunningAfterNew(running, launched, eri, res)
          /\ file' = newFile
          /\ handle' = IF res = "Ok"
                          THEN [handle EXCEPT ![h] = NewHandle(eri, cfg)]
                          ELSE handle
          /\ boot' = [h |-> h, result |-> res, launched |-> launched,
                      opened |-> reachedWrite /\ wr # "open_err",
                      wrote |-> reachedWrite /\ wr = "ok",
                      restarted |-> reachedRestart /\ rs # "exec_err",
                      killed |-> FALSE]
  /\ teardown' = NoTeardown
  /\ UNCHANGED booted
  /\ ForgetCall

(* ------------------------------- drop() ------------------------------- *)

\* signal::kill succeeds or fails (no such process, no permission)
KillOutcomes == {"ok", "err"}
\* fs::remove_file succeeds, or fails; it cannot succeed on a missing file
RemoveOutcomes(f) == IF f.present THEN {"ok", "err"} ELSE {"err"}

\* the processes a successful kill(Pid::from_raw(pid), SIGTERM) terminates:
\* the one whose id is pid, when pid is positive
Signalled(pid) == IF IsNegativeI32(pid) THEN {} ELSE {ZeroExtend(pid)}

DropStepsKillPropagated(k, r) ==
  [killAttempted |-> TRUE, killOk |-> k = "ok",
   removeAttempted |-> k = "ok", removeOk |-> k = "ok" /\ r = "ok",
   warned |-> k = "ok" /\ r # "ok", completed |-> k = "ok"]

\* drop(): kill(...).unwrap_or_default(), then remove_file(...).unwrap_or_else(warn)
DropSteps(k, r) ==
  [killAttempted |-> TRUE, killOk |-> k = "ok",
   removeAttempted |-> TRUE, removeOk |-> r = "ok",
   warned |-> r # "ok", completed |-> TRUE]

Drop(h) ==
  /\ Idle
  /\ Live(h)
  /\ \E k \in KillOutcomes, r \in RemoveOutcomes(file) :
       LET d == DropSteps(k, r)
       IN /\ running' = IF d.killAttempted /\ d.killOk
                           THEN running \ Signalled(handle[h].pid)
                           ELSE running
          /\ file' = IF d.removeAttempted /\ d.removeOk THEN NoFile ELSE file
          /\ teardown' = [h |-> h] @@ d
  /\ handle' = [handle EXCEPT ![h] = NoHandle("dropped")]
  /\ boot' = NoBoot
  /\ booted' = booted \ {h}
  /\ ForgetCall

(* ------------------------------- rpc() -------------------------------- *)

\* Every public operation starts from the same local state.
StartCall(o, h, firstPc) ==
  /\ Idle
  /\ Live(h)
  /\ op' = o
  /\ cur' = h
  /\ pc' = firstPc
  /\ now' = 0
  /\ rpcRes' = NoRes
  /\ ret' = NoRes
  /\ attempts' = 0
  /\ sleeps' = <<>>
  /\ polls' = <<>>
  /\ nresp' = 0
  /\ nacc' = 0
  /\ interrupted' = FALSE
  /\ boot' = NoBoot
  /\ teardown' = NoTeardown
  /\ UNCHANGED <<conn, inflight, handle, file, running, booted>>

\* the address rpc() connects to: VsockAddr { cid: self.cid, port: self.rpc_port }
RpcAddr(h) == handle[h].cid

ConnectOutcomes == {"ok", "err"}
SendOutcomes == {"ok", "err"}
\* recv_response fails, or decodes a response the enclave accepted or rejected
RecvOutcomes == {"err", "accepted", "rejected"}
RpcDelays == {150 * d : d \in 0..MaxRpcDelay}

\* The clock is followed only while wait_boot runs: no other operation reads it.
ClockAfter(o, t, d) == IF o = "wait_boot" THEN t + d ELSE t

\* the value rpc() returns once recv_response has returned
RecvResult(r, id) ==
  IF r = "err" THEN ErrRes("RpcTransportError", id) ELSE OkRes(r = "accepted", id)

CloseConnKeepsStream(c, addr) == c

\* the stream and the transport built on it are dropped when rpc() returns
CloseConn(c, addr) == c \ {addr}

\* rpc(): VsockStream::connect(...).map_err(Error::RpcConnectError)
RpcConnect ==
  /\ pc = "rpc_connect"
  /\ attempts' = attempts + 1
  /\ \E c \in ConnectOutcomes :
       IF c = "ok"
         THEN /\ conn' = conn \cup {RpcAddr(cur)}
              /\ pc' = "rpc_send"
              /\ UNCHANGED rpcRes
         ELSE /\ rpcRes' = ErrRes("RpcConnectError", attempts + 1)
              /\ pc' = "rpc_ret"
              /\ UNCHANGED conn
  /\ UNCHANGED <<op, cur, count, limit, now, ret, inflight, sleeps, polls,
                 nresp, nacc, interrupted, envVars, booted>>

\* rpc(): xport.send_request(request).map_err(Error::RpcTransportError)?
RpcSend ==
  /\ pc = "rpc_send"
  /\ \E s \in SendOutcomes :
       IF s = "ok"
         THEN /\ inflight' = inflight + 1
              /\ pc' = "rpc_recv"
              /\ UNCHANGED <<rpcRes, conn>>
         ELSE /\ rpcRes' = ErrRes("RpcTransportError", attempts)
              /\ conn' = CloseConn(conn, RpcAddr(cur))
              /\ pc' = "rpc_ret"
              /\ UNCHANGED inflight
  /\ UNCHANGED <<op, cur, count, limit, now, ret, attempts, sleeps, polls,
                 nresp, nacc, interrupted, envVars, booted>>

\* rpc(): xport.recv_response().map_err(Error::RpcTransportError); it blocks
\* until the transport returns
RpcRecv ==
  /\ pc = "rpc_recv"
  /\ \E r \in RecvOutcomes, d \in RpcDelays :
       /\ rpcRes' = RecvResult(r, attempts)
       /\ now' = ClockAfter(op, now, d)
       /\ nresp' = IF r = "err" THEN nresp ELSE nresp + 1
       /\ nacc' = IF r = "accepted" THEN nacc + 1 ELSE nacc
  /\ inflight' = inflight - 1
  /\ conn' = CloseConn(conn, RpcAddr(cur))
  /\ pc' = "rpc_ret"
  /\ UNCHANGED <<op, cur, count, limit, ret, attempts, sleeps, polls,
                 interrupted, envVars, booted>>

(* ------------------------ interruptible_sleep ------------------------- *)

\* util::interruptible_sleep(dur): returns Ok(()) after dur has elapsed, or
\* Err(SleepError::UserExit) as soon as a user interrupt arrives, before dur
\* has elapsed.  Each outcome is [res, elapsed].
InterruptibleSleep(dur) ==
  {[res |-> "Ok", elapsed |-> dur]} \cup
  {[res |-> "UserExit", elapsed |-> e] : e \in {0, dur - 100}}

(* ----------------------------- wait_boot ------------------------------ *)

\* let limit = Instant::now() + self.boot_timeout
WaitBootStart(h) ==
  /\ StartCall("wait_boot", h, "wb_while")
  /\ limit' = 0 + handle[h].boot_timeout
  /\ count' = 0

WaitBootCondInclusive(t, lim) == t <= lim

\* while Instant::now() < limit
WaitBootCond(t, lim) == t < lim

WaitBootWhile ==
  /\ pc = "wb_while"
  /\ IF WaitBootCond(now, limit)
       THEN /\ pc' = "rpc_connect"
            /\ polls' = Append(polls, now)
            /\ UNCHANGED ret
       ELSE /\ pc' = "done"
            /\ ret' = BoolRet(FALSE)
            /\ UNCHANGED polls
  /\ UNCHANGED <<op, cur, count, limit, now, rpcRes, conn, inflight, attempts,
                 sleeps, nresp, nacc, interrupted, envVars, booted>>

WaitBootBootedOnAnyResponse(res) == res.kind = "Ok"

\* if let Ok(Ok(_)) = self.rpc(...)
WaitBootBooted(res) == res.kind = "Ok" /\ res.ok

WaitBootRpcRet ==
  /\ pc = "rpc_ret"
  /\ op = "wait_boot"
  /\ IF WaitBootBooted(rpcRes)
       THEN /\ pc' = "done"
            /\ ret' = BoolRet(TRUE)
            /\ booted' = booted \cup {cur}
            /\ UNCHANGED sleeps
       ELSE /\ pc' = "wb_sleep"
            /\ sleeps' = Append(sleeps, PollDurMs)
            /\ UNCHANGED <<ret, booted>>
  /\ UNCHANGED <<op, cur, count, limit, now, rpcRes, conn, inflight, attempts,
                 polls, nresp, nacc, interrupted, envVars>>

WaitBootOnSleepIgnored(s) == "loop"

\* if let Err(UserExit) = interruptible_sleep(poll_dur) { return false }
WaitBootOnSleep(s) == IF s.res = "UserExit" THEN "return_false" ELSE "loop"

WaitBootSleep ==
  /\ pc = "wb_sleep"
  /\ \E s \in InterruptibleSleep(sleeps[Len(sleeps)]) :
       /\ now' = now + s.elapsed
       /\ interrupted' = (s.res = "UserExit")
       /\ IF WaitBootOnSleep(s) = "return_false"
            THEN /\ pc' = "done"
                 /\ ret' = BoolRet(FALSE)
            ELSE /\ pc' = "wb_while"
                 /\ UNCHANGED ret
  /\ UNCHANGED <<op, cur, count, limit, rpcRes, conn, inflight, attempts,
                 sleeps, polls, nresp, nacc, envVars, booted>>

(* ----------------------------- retry_rpc ------------------------------ *)

UsesRetryAlways(o) == TRUE

\* which token operations go through retry_rpc: add_token, refresh_token and
\* update_token call self.retry_rpc, remove_token and describe_token call self.rpc
UsesRetry(o) == o \in {"add_token", "refresh_token", "update_token"}

\* add_token, refresh_token, update_token: self.retry_rpc(&request); let mut count = 1
RetryStart(h, o) ==
  /\ UsesRetry(o)
  /\ StartCall(o, h, "rpc_connect")
  /\ count' = 1
  /\ limit' = 0

RetryDonePastCount(res, c, n) == res.ok \/ c > n
RetryDoneOneEarly(res, c, n) == res.ok \/ c + 1 >= n
RetryDoneCountOnly(res, c, n) == c = n

\* if res.is_ok() || count == self.attestation_retry_count { return Ok(res) }
RetryDone(res, c, n) == res.ok \/ c = n

RetryAbortsOnConnectOnly(res) == res.kind = "RpcConnectError"

\* let res = self.rpc(request)?: any Err of rpc() is returned at once
RetryAborts(res) == res.kind # "Ok"

SleepMsShiftByCount(c) == (2 ^ c) * BackoffBaseMs

\* Duration::from_millis((1 << (count - 1)) * 100)
SleepMs(c) == (2 ^ (c - 1)) * BackoffBaseMs

\* let res = self.rpc(request)?; ... the part of the loop body up to the sleep
RetryRpcRet ==
  /\ pc = "rpc_ret"
  /\ op \in TokenOps
  /\ UsesRetry(op)
  /\ IF RetryAborts(rpcRes)
       THEN /\ pc' = "done"
            /\ ret' = rpcRes
            /\ UNCHANGED sleeps
       ELSE IF RetryDone(rpcRes, count, handle[cur].attestation_retry_count)
         THEN /\ pc' = "done"
              /\ ret' = rpcRes
              /\ UNCHANGED sleeps
         ELSE /\ pc' = "rr_sleep"
              /\ sleeps' = Append(sleeps, SleepMs(count))
              /\ UNCHANGED ret
  /\ UNCHANGED <<op, cur, count, limit, now, rpcRes, conn, inflight, attempts,
                 polls, nresp, nacc, interrupted, envVars, booted>>

RetryOnSleepIgnored(s) == "loop"

\* if let Err(UserExit) = interruptible_sleep(sleep) { return Ok(res) }
RetryOnSleep(s) == IF s.res = "UserExit" THEN "return_res" ELSE "loop"

\* ... the sleep, then count += 1 and the next turn of the loop
RetrySleep ==
  /\ pc = "rr_sleep"
  /\ \E s \in InterruptibleSleep(sleeps[Len(sleeps)]) :
       /\ now' = ClockAfter(op, now, s.elapsed)
       /\ interrupted' = (s.res = "UserExit")
       /\ IF RetryOnSleep(s) = "return_res"
            THEN /\ pc' = "done"
                 /\ ret' = rpcRes
                 /\ UNCHANGED count
            ELSE /\ count < MaxCount
                 /\ pc' = "rpc_connect"
                 /\ count' = count + 1
                 /\ UNCHANGED ret
  /\ UNCHANGED <<op, cur, limit, rpcRes, conn, inflight, attempts, sleeps,
                 polls, nresp, nacc, envVars, booted>>

(* ------------------- remove_token, describe_token --------------------- *)

\* self.rpc(&request)
SingleStart(h, o) ==
  /\ ~UsesRetry(o)
  /\ StartCall(o, h, "rpc_connect")
  /\ count' = 0
  /\ limit' = 0

SingleRpcRet ==
  /\ pc = "rpc_ret"
  /\ op \in TokenOps
  /\ ~UsesRetry(op)
  /\ pc' = "done"
  /\ ret' = rpcRes
  /\ UNCHANGED <<op, cur, count, limit, now, rpcRes, conn, inflight, attempts,
                 sleeps, polls, nresp, nacc, interrupted, envVars, booted>>

(* --------------------------- specification ---------------------------- *)

CallStep ==
  \/ RpcConnect
  \/ RpcSend
  \/ RpcRecv
  \/ WaitBootWhile
  \/ WaitBootRpcRet
  \/ WaitBootSleep
  \/ RetryRpcRet
  \/ RetrySleep
  \/ SingleRpcRet

Next ==
  \/ \E h \in Handles : New(h)
  \/ \E h \in Handles : Drop(h)
  \/ \E h \in Handles : WaitBootStart(h)
  \/ \E h \in Handles, o \in TokenOps : RetryStart(h, o)
  \/ \E h \in Handles, o \in TokenOps : SingleStart(h, o)
  \/ CallStep

Spec == Init /\ [][Next]_vars

\* The calling thread runs every call it has started: a blocking rpc() or sleep
\* returns, and the code between them is executed.
LiveSpec == Init /\ [][Next]_vars /\ WF_vars(CallStep)

(* ------------------------------ helpers ------------------------------- *)

InRetry == op \in RetryOps
InWaitBoot == op = "wait_boot"
InSingle == op \in SingleOps
Returned == pc = "done"
RetryCountOf == handle[cur].attestation_retry_count

IsErr(res) == res.kind \in {"RpcConnectError", "RpcTransportError"}
PollGapsOk == \A i \in 1..(Len(polls) - 1) : polls[i + 1] - polls[i] >= 100

(* ------------------------------- claims ------------------------------- *)

\* C1: with attestation_retry_count = N >= 1, whatever the rpc outcomes, one
\* retry_rpc call issues at most N rpc attempts, and its k-th backoff sleep,
\* taken after attempt k and before attempt k+1, is 100 * 2^(k-1) ms.
C1_RetryBoundedBackoff ==
  (InRetry /\ RetryCountOf >= 1) =>
    /\ attempts <= RetryCountOf
    /\ Len(sleeps) <= attempts
    /\ attempts <= Len(sleeps) + 1
    /\ \A k \in 1..Len(sleeps) : sleeps[k] = 100 * (2 ^ (k - 1))

C1_Witness ==
  /\ InRetry
  /\ Returned
  /\ RetryCountOf = 3
  /\ attempts = 3
  /\ sleeps = <<100, 200>>

\* C2 as claimed: wait_boot returns true on the first poll that receives any
\* response, accepted or rejected.
C2_AnyResponseBoots ==
  (InWaitBoot /\ nresp > 0 /\ pc # "rpc_ret") => (Returned /\ ret = BoolRet(TRUE))

\* C2 as amended: wait_boot returns true on the first poll whose response is an
\* application-level success, and only then; a rejected response, like a connect
\* or transport failure, leads to the poll sleep and the next poll, and false is
\* returned only on a user interrupt or once the deadline has passed.
C2_AcceptedResponseBoots ==
  InWaitBoot =>
    /\ (nacc > 0 /\ pc # "rpc_ret") => (Returned /\ ret = BoolRet(TRUE))
    /\ (Returned /\ ret = BoolRet(TRUE)) =>
         (nacc = 1 /\ rpcRes = OkRes(TRUE, attempts))
    /\ (pc = "wb_sleep") => (rpcRes.id = attempts /\ ~rpcRes.ok)
    /\ (Returned /\ ret = BoolRet(FALSE)) => (interrupted \/ now >= limit)

C2_Witness ==
  /\ InWaitBoot
  /\ Returned
  /\ ret = BoolRet(TRUE)
  /\ attempts = 2
  /\ nresp = 2

\* C3: in retry_rpc a connect or transport failure on any attempt ends the call
\* at once with that error: no further attempt and no sleep follows it, and a
\* failure on the first attempt means one attempt and no sleep at all.
C3_TransportErrorEndsRetry ==
  (InRetry /\ IsErr(rpcRes) /\ pc # "rpc_ret") =>
    /\ Returned
    /\ ret = rpcRes
    /\ rpcRes.id = attempts
    /\ Len(sleeps) = attempts - 1
    /\ (attempts = 1 => sleeps = <<>>)

C3_Witness ==
  /\ InRetry
  /\ Returned
  /\ ret = ErrRes("RpcTransportError", 2)
  /\ attempts = 2
  /\ Len(sleeps) = 1

\* C4: if every attempt of a retry_rpc call is answered with a rejection and no
\* interrupt occurs, then with N = attestation_retry_count >= 1 the call makes
\* exactly N attempts and returns Ok with the rejection of the N-th attempt.
C4_AllRejectedReturnsLast ==
  (InRetry /\ Returned /\ RetryCountOf >= 1 /\ ~interrupted
     /\ nresp = attempts /\ nacc = 0) =>
    /\ attempts = RetryCountOf
    /\ ret = OkRes(FALSE, RetryCountOf)
    /\ Len(sleeps) = RetryCountOf - 1

C4_Witness ==
  /\ InRetry
  /\ Returned
  /\ RetryCountOf = 3
  /\ ~interrupted
  /\ nresp = 3
  /\ nacc = 0
  /\ ret = OkRes(FALSE, 3)

\* C5: if attempt k < N of a retry_rpc call is answered with a success, the call
\* returns that success, with no rpc attempt and no sleep after it.
C5_SuccessEndsRetry ==
  (InRetry /\ nacc > 0 /\ attempts < RetryCountOf /\ pc # "rpc_ret") =>
    /\ Returned
    /\ ret = OkRes(TRUE, attempts)
    /\ nacc = 1
    /\ Len(sleeps) = attempts - 1

C5_Witness ==
  /\ InRetry
  /\ Returned
  /\ RetryCountOf = 3
  /\ attempts = 2
  /\ ret = OkRes(TRUE, 2)

\* C6: a user interrupt during a poll sleep of wait_boot or a backoff sleep of
\* retry_rpc makes the call return without a further rpc attempt: wait_boot
\* returns false, retry_rpc returns Ok with the rejection that preceded the sleep.
C6_InterruptReturns ==
  /\ (InWaitBoot /\ interrupted) =>
       (Returned /\ ret = BoolRet(FALSE) /\ Len(sleeps) = attempts)
  /\ (InRetry /\ interrupted) =>
       /\ Returned
       /\ ret = OkRes(FALSE, attempts)
       /\ Len(sleeps) = attempts

C6_Witness ==
  /\ InRetry
  /\ interrupted
  /\ Returned
  /\ attempts = 2
  /\ ret = OkRes(FALSE, 2)

\* C7: if no poll of wait_boot receives a response and no interrupt occurs,
\* wait_boot eventually returns, with false and not before boot_timeout has
\* elapsed, and consecutive polls are at least 100 ms apart.
C7_WaitBootTimesOut ==
  /\ [](InWaitBoot => PollGapsOk)
  /\ []((InWaitBoot /\ Returned /\ nresp = 0 /\ ~interrupted) =>
          (ret = BoolRet(FALSE) /\ now >= limit))
  /\ ((InWaitBoot /\ ~Returned) ~> (InWaitBoot /\ Returned))

C7_Witness ==
  /\ InWaitBoot
  /\ Returned
  /\ nresp = 0
  /\ ~interrupted
  /\ attempts = 2
  /\ ret = BoolRet(FALSE)

\* C8: drop() always attempts both the termination signal and the deletion of
\* the bridge file: a failed signal does not skip the deletion, a failed deletion
\* is only logged, and drop() runs to its end.
C8_TeardownAttemptsBoth ==
  (teardown.h # 0) =>
    /\ teardown.killAttempted
    /\ teardown.removeAttempted
    /\ teardown.completed
    /\ (teardown.warned <=> ~teardown.removeOk)
    /\ (teardown.removeOk => ~file.present)
    /\ handle[teardown.h].state = "dropped"

C8_Witness ==
  /\ teardown.h # 0
  /\ ~teardown.killOk
  /\ teardown.removeOk
  /\ ~file.present

\* C9: the bridge file is present while a handle that wrote it is live, and
\* absent whenever no handle is live (after the handle's destruction, or when
\* new() wrote the file and returned no handle).
C9_FileLivesWithHandle ==
  /\ \A h \in Handles : Live(h) => file.present
  /\ file.present => \E h \in Handles : Live(h)

\* C10: remove_token and describe_token issue exactly one rpc attempt and no
\* sleep, and return what that attempt returned, a rejection included, whatever
\* attestation_retry_count is.
C10_SingleShot ==
  InSingle =>
    /\ attempts <= 1
    /\ sleeps = <<>>
    /\ Returned => (attempts = 1 /\ ret = rpcRes /\ rpcRes.id = 1)

C10_Witness ==
  /\ op = "remove_token"
  /\ Returned
  /\ RetryCountOf = 3
  /\ ret = OkRes(FALSE, 1)
  /\ attempts = 1

RECURSIVE SumSeq(_)
SumSeq(q) == IF q = <<>> THEN 0 ELSE q[1] + SumSeq(Tail(q))

\* C11: for add_token, refresh_token and update_token with
\* attestation_retry_count >= k: when the first k-1 attempts are rejected and
\* attempt k is accepted, with no interrupt, the call returns that accepted
\* response after exactly k attempts and 100 * (2^(k-1) - 1) ms of backoff in
\* all (100 ms + 200 ms for k = 3).
C11_SuccessAfterRejections ==
  (InRetry /\ pc # "rpc_ret" /\ RetryCountOf >= attempts /\ ~interrupted
     /\ nresp = attempts /\ nacc = 1 /\ rpcRes = OkRes(TRUE, attempts)) =>
    /\ Returned
    /\ ret = OkRes(TRUE, attempts)
    /\ Len(sleeps) = attempts - 1
    /\ SumSeq(sleeps) = 100 * ((2 ^ (attempts - 1)) - 1)

C11_Witness ==
  /\ op = "add_token"
  /\ Returned
  /\ RetryCountOf = 3
  /\ attempts = 3
  /\ nresp = 3
  /\ ret = OkRes(TRUE, 3)
  /\ SumSeq(sleeps) = 100 + 200

BootFailedLate ==
  {"P11KitSetupError", "SystemdExecError", "VsockProxyError"}
Orphans(procs, hs) ==
  {p \in procs : \A h \in Handles : hs[h].state = "live" => ZeroExtend(hs[h].pid) # p}

\* C12: when the launcher step of new() fails, new() returns the launch error
\* and has changed nothing: no enclave process was started, the bridge file was
\* neither written nor truncated, the proxy was not restarted, no handle exists.
C12_LaunchFailureLeavesNothing ==
  [][(boot'.result = "NitroCliError") =>
       /\ running' = running
       /\ file' = file
       /\ handle' = handle
       /\ ~boot'.launched /\ ~boot'.opened /\ ~boot'.wrote /\ ~boot'.restarted
       /\ handle'[boot'.h].state = "none"]_vars

C12_Witness ==
  /\ boot.result = "NitroCliError"
  /\ boot.h = 2
  /\ Live(1)
  /\ file.present
  /\ file.writer = 1
  /\ Cardinality(running) = 1

\* C13: when new() fails at the bridge-file write or at the proxy restart, it
\* returns the error of that phase and no handle, and the enclave process it
\* launched is left running: new() does not signal it, and with no handle to
\* drop nothing signals it later.
C13_LateFailureLeaksProcess ==
  /\ [][(boot'.result \in BootFailedLate) =>
          /\ handle' = handle
          /\ handle'[boot'.h].state = "none"
          /\ running \subseteq running'
          /\ Cardinality(running' \ running) = 1
          /\ (running' \ running) \subseteq Orphans(running', handle')
          /\ (boot'.result = "P11KitSetupError") = ~boot'.wrote
          /\ (boot'.result = "SystemdExecError") = (boot'.wrote /\ ~boot'.restarted)
          /\ (boot'.result = "VsockProxyError") = (boot'.wrote /\ boot'.restarted)]_vars
  /\ [][Orphans(running, handle) \subseteq running']_vars

C13_Witness ==
  /\ teardown.h = 1
  /\ teardown.killOk
  /\ handle[2].state = "none"
  /\ Orphans(running, handle) # {}

InRpc == pc \in {"rpc_send", "rpc_recv"}

\* C14: every rpc() call opens one new connection, sends one request and reads
\* one response on it, and the connection is closed when the call returns, with
\* a response or an error: at most one connection is open and at most one
\* request is in flight, and none is open between calls.
C14_OneConnectionPerCall ==
  /\ Cardinality(conn) <= 1
  /\ inflight \in {0, 1}
  /\ ~InRpc => (conn = {} /\ inflight = 0)
  /\ pc = "rpc_send" => (conn = {RpcAddr(cur)} /\ inflight = 0)
  /\ pc = "rpc_recv" => (conn = {RpcAddr(cur)} /\ inflight = 1)
  /\ pc = "rpc_ret" => rpcRes.id = attempts

C14_Witness ==
  /\ pc = "rpc_recv"
  /\ attempts = 2
  /\ inflight = 1
  /\ conn = {RpcAddr(cur)}

\* C15 as claimed: a token operation issues its RPCs only on a handle that is
\* ready, that is, on which wait_boot has returned true.
C15_TokenOpsOnlyWhenReady ==
  (op \in TokenOps /\ attempts >= 1) => cur \in booted

\* C15 as amended: a handle goes created -> destroyed; wait_boot and the token
\* operations are issued on any handle that exists (after new() has returned it
\* and before drop()), whether or not wait_boot has returned true on it; the
\* handle is dropped exactly once and no RPC is issued on it afterwards.
C15_OpsOnlyWhileLive ==
  /\ [](op # "none" => handle[cur].state = "live")
  /\ [](\A h \in booted : handle[h].state = "live")
  /\ [][\A h \in Handles :
          /\ handle[h].state = "dropped" => handle'[h].state = "dropped"
          /\ (handle[h].state = "live" /\ handle'[h].state # "live") =>
               /\ handle'[h].state = "dropped"
               /\ teardown'.h = h
               /\ teardown'.completed
               /\ op' = "none"]_vars

C15_Witness ==
  /\ op = "add_token"
  /\ cur \notin booted
  /\ Returned
  /\ ret = OkRes(TRUE, 1)

\* C16: with attestation_retry_count = 0 the count, which starts at 1, never
\* equals it: retry_rpc goes on retrying a rejected request with doubling sleeps
\* and returns only on a success, a connect or transport error, or a user
\* interrupt during a sleep; while every response is a rejection and no
\* interrupt occurs it does not return.
C16_ZeroCountRetriesWithoutBound ==
  (InRetry /\ RetryCountOf = 0) =>
    /\ count >= 1
    /\ Returned => (ret = OkRes(TRUE, attempts) \/ IsErr(ret) \/ interrupted)
    /\ (pc # "rpc_ret" /\ attempts >= 1 /\ nresp = attempts /\ nacc = 0
          /\ ~interrupted) =>
         (~Returned /\ Len(sleeps) = attempts)
    /\ \A k \in 1..Len(sleeps) : sleeps[k] = 100 * (2 ^ (k - 1))
    /\ attempts \in {count - 1, count}

C16_Witness ==
  /\ InRetry
  /\ RetryCountOf = 0
  /\ attempts = 4
  /\ nresp = 4
  /\ nacc = 0
  /\ ~Returned
  /\ sleeps = <<100, 200, 400, 800>>

\* C17: wait_boot tests its deadline, start + boot_timeout, only before a poll:
\* no poll starts at or after the deadline, so with boot_timeout = 0 no RPC is
\* issued and false is returned; and a poll started before the deadline whose
\* accepted response arrives after it still makes wait_boot return true.
C17_DeadlineCheckedBeforePoll ==
  InWaitBoot =>
    /\ limit = handle[cur].boot_timeout
    /\ \A i \in 1..Len(polls) : polls[i] < limit
    /\ attempts <= Len(polls)
    /\ Len(polls) <= attempts + 1
    /\ (handle[cur].boot_timeout = 0) =>
         (attempts = 0 /\ polls = <<>> /\ (Returned => ret = BoolRet(FALSE)))
    /\ (nacc > 0 /\ pc # "rpc_ret") => (Returned /\ ret = BoolRet(TRUE))

C17_Witness ==
  /\ InWaitBoot
  /\ Returned
  /\ ret = BoolRet(TRUE)
  /\ polls[Len(polls)] < limit
  /\ now > limit

BothLive == Live(1) /\ Live(2)

\* C18: with two handles live (two new() without a drop between them) the one
\* fixed-path bridge file holds the cid of the enclave bootstrapped last, and
\* dropping either handle removes that file while the other handle is still
\* live, which leaves a live handle without bridge configuration.
C18_SharedFileLastWriterWins ==
  /\ [](BothLive =>
          /\ file.present
          /\ file.writer = 2
          /\ file.cid # <<>>
          /\ AsU32(file.cid) = handle[2].cid)
  /\ [][(BothLive /\ teardown'.h # 0) =>
          /\ teardown'.removeAttempted
          /\ file' = IF teardown'.removeOk THEN NoFile ELSE file
          /\ \E g \in Handles : g # teardown'.h /\ handle'[g] = handle[g]
                                   /\ handle'[g].state = "live"]_vars

C18_Witness ==
  /\ teardown.h = 1
  /\ teardown.removeOk
  /\ Live(2)
  /\ ~file.present

\* C19: after a successful new() the cid the handle connects to in every rpc()
\* equals the cid the launcher returned, which is the cid written to the bridge
\* file, for every value the launcher can return (also one wider than 32 bits).
C19_ChannelIdPreserved ==
  \A h \in Handles :
    (Live(h) /\ file.present /\ file.writer = h /\ file.cid # <<>>) =>
      ZeroExtend(RpcAddr(h)) = file.cid

====
